---- MODULE Spec2Model ----
(***************************************************************************)
(* SkillSphere: the AI-response normaliser of src/api/index.py and         *)
(* src/main.py.  Texts are sequences of one-character strings; a decoded   *)
(* JSON object is a function from its keys to JSON values.                 *)
(***************************************************************************)
EXTENDS Integers, Sequences, FiniteSets, TLC

VARIABLES pc, text, cleaned, recleaned, cls, data, once, twice, body, result,
          config, users, roadmaps, next_rid, reqs

\* the state of one normaliser run
nvars == <<pc, text, cleaned, recleaned, cls, data, once, twice, body, result>>

\* the state of the running service: its configuration, the two collections
\* (users: how many UserAccount documents hold each email), and the requests
\* in flight
svars == <<config, users, roadmaps, next_rid, reqs>>

vars == <<nvars, svars>>

\* no service runs while a normaliser run is examined
ServiceOff ==
    /\ config = "none"
    /\ users = <<>>
    /\ roadmaps = {}
    /\ next_rid = 1
    /\ reqs = <<>>

(* ------------------------------ bounds --------------------------------- *)
MaxPieces == 5

MaxElems == 2

(* ------------------------- Python str helpers -------------------------- *)
\* the backquote character (U+0060) and the newline are written by name
BQ == "backquote"

NL == "newline"

Whitespace == {" ", NL}

Fence == <<BQ, BQ, BQ>>

Json4 == <<"j", "s", "o", "n">>

FenceJson == Fence \o Json4

Min(S) == CHOOSE m \in S : \A n \in S : m <= n

Max(S) == CHOOSE m \in S : \A n \in S : m >= n

\* text[n:]
Drop(s, n) == SubSeq(s, n + 1, Len(s))

\* text[:-n]
DropLast(s, n) == SubSeq(s, 1, Len(s) - n)

\* text.startswith(p)
StartsWith(s, p) == Len(s) >= Len(p) /\ SubSeq(s, 1, Len(p)) = p

\* text.endswith(p)
EndsWith(s, p) == Len(s) >= Len(p) /\ SubSeq(s, Len(s) - Len(p) + 1, Len(s)) = p

\* p in text
Contains(s, p) == \E i \in 0..(Len(s) - Len(p)) : SubSeq(s, i + 1, i + Len(p)) = p

\* text.strip()
Strip(s) ==
    LET keep == {i \in 1..Len(s) : s[i] \notin Whitespace}
    IN  IF keep = {} THEN <<>> ELSE SubSeq(s, Min(keep), Max(keep))

(* ----------------------- clean_json_response --------------------------- *)
\* a slip: the bare marker is tested before the tagged one
RemoveOpen_BareFirst(s) ==
    LET t1 == IF StartsWith(s, Fence) THEN Drop(s, 3) ELSE s
    IN  IF StartsWith(t1, FenceJson) THEN Drop(t1, 7) ELSE t1

\* the two opening-marker tests, in the order of the code
RemoveOpen(s) ==
    LET t1 == IF StartsWith(s, FenceJson) THEN Drop(s, 7) ELSE s
    IN  IF StartsWith(t1, Fence) THEN Drop(t1, 3) ELSE t1

\* a slip: the closing marker is never removed
RemoveClose_Never(s) == s

RemoveClose(s) == IF EndsWith(s, Fence) THEN DropLast(s, 3) ELSE s

\* a slip: the final strip() is forgotten
clean_json_response_NoFinalStrip(s) == RemoveClose(RemoveOpen(Strip(s)))

clean_json_response(s) == Strip(RemoveClose(RemoveOpen(Strip(s))))

(* --------------------- inputs of the cleanup runs ---------------------- *)
Pieces == {Fence, FenceJson, Json4, <<BQ>>, <<" ">>, <<NL>>, <<"a">>}

RECURSIVE Texts(_)
Texts(n) ==
    IF n = 0 THEN {<<>>}
    ELSE LET prev == Texts(n - 1)
         IN  prev \cup {t \o p : t \in prev, p \in Pieces}

NoData == <<>>

InitClean ==
    /\ pc = "clean_start"
    /\ ServiceOff
    /\ text \in Texts(MaxPieces)
    /\ cleaned = <<>>
    /\ recleaned = <<>>
    /\ cls = "none"
    /\ data = NoData
    /\ once = NoData
    /\ twice = NoData
    /\ body = NoData
    /\ result = NoData

CleanOnce ==
    /\ pc = "clean_start"
    /\ cleaned' = clean_json_response(text)
    /\ pc' = "cleaned"
    /\ UNCHANGED <<text, recleaned, cls, data, once, twice, body, result>>
    /\ UNCHANGED svars

CleanTwice ==
    /\ pc = "cleaned"
    /\ recleaned' = clean_json_response(cleaned)
    /\ pc' = "recleaned"
    /\ UNCHANGED <<text, cleaned, cls, data, once, twice, body, result>>
    /\ UNCHANGED svars

NextClean == CleanOnce \/ CleanTwice

SpecClean == InitClean /\ [][NextClean]_vars

(* ----------------------------- JSON values ----------------------------- *)
\* a decoded JSON value that is not a mapping: t is its Python type, s the
\* characters of a str, n the value of an int
JStr(chars) == [t |-> "str", s |-> chars, n |-> 0]

JInt(k) == [t |-> "int", s |-> <<>>, n |-> k]

JNone == [t |-> "NoneType", s |-> <<>>, n |-> 0]

\* a JSON array
JArr(items) == [t |-> "list", items |-> items]

\* marks a key the mapping does not hold (used to build inputs only)
Absent == [t |-> "absent", s |-> <<>>, n |-> 0]

\* isinstance(data, dict): a mapping is a function from its keys
IsDict(d) == "t" \notin DOMAIN d

\* type(v).__name__
TypeOf(v) == IF IsDict(v) THEN "dict" ELSE v.t

\* data[k] = v
Put(d, k, v) == [x \in (DOMAIN d) \cup {k} |-> IF x = k THEN v ELSE d[x]]

\* data.get(k, default)
Get(d, k, default) == IF k \in DOMAIN d THEN d[k] ELSE default

LowerMap ==
    [P |-> "p", R |-> "r", O |-> "o", J |-> "j", E |-> "e", C |-> "c", T |-> "t",
     L |-> "l", D |-> "d", M |-> "m", I |-> "i", A |-> "a"]

\* str.lower()
Lower(chars) ==
    [i \in 1..Len(chars) |-> IF chars[i] \in DOMAIN LowerMap THEN LowerMap[chars[i]] ELSE chars[i]]

S_project == <<"p", "r", "o", "j", "e", "c", "t">>

S_PersonalProject ==
    <<"P", "e", "r", "s", "o", "n", "a", "l", " ", "P", "r", "o", "j", "e", "c", "t">>

(* ------------------- Experience.handle_ai_variations ------------------- *)
AliasTitle(d) ==
    IF "title" \in DOMAIN d /\ "role" \notin DOMAIN d THEN Put(d, "role", d["title"]) ELSE d

AliasDescription(d) ==
    IF "description" \in DOMAIN d /\ "summary" \notin DOMAIN d
    THEN Put(d, "summary", d["description"]) ELSE d

\* the third statement: .lower() exists on str only, so any other role value
\* raises AttributeError, after the first two statements have run
DefaultCompany(d) ==
    LET role == Get(d, "role", JStr(<<>>))
    IN  IF TypeOf(role) # "str" THEN [data |-> d, raised |-> TRUE]
        ELSE IF Contains(Lower(role.s), S_project) /\ "company" \notin DOMAIN d
             THEN [data |-> Put(d, "company", JStr(S_PersonalProject)), raised |-> FALSE]
             ELSE [data |-> d, raised |-> FALSE]

\* a slip: the company default is decided before the title alias is applied
Experience_handle_ai_variations_CompanyFirst(d) ==
    IF ~IsDict(d) THEN [data |-> d, raised |-> FALSE]
    ELSE LET c == DefaultCompany(d)
         IN  [data |-> AliasDescription(AliasTitle(c.data)), raised |-> c.raised]

\* a slip: the "project" test is made without .lower()
Experience_handle_ai_variations_CaseSensitive(d) ==
    IF ~IsDict(d) THEN [data |-> d, raised |-> FALSE]
    ELSE LET d2 == AliasDescription(AliasTitle(d))
             role == Get(d2, "role", JStr(<<>>))
         IN  IF TypeOf(role) # "str" THEN [data |-> d2, raised |-> TRUE]
             ELSE IF Contains(role.s, S_project) /\ "company" \notin DOMAIN d2
                  THEN [data |-> Put(d2, "company", JStr(S_PersonalProject)), raised |-> FALSE]
                  ELSE [data |-> d2, raised |-> FALSE]

\* a slip: title is copied over role whether or not role is present
Experience_handle_ai_variations_Overwrite(d) ==
    IF ~IsDict(d) THEN [data |-> d, raised |-> FALSE]
    ELSE DefaultCompany(AliasDescription(
             IF "title" \in DOMAIN d THEN Put(d, "role", d["title"]) ELSE d))

\* the outcome: the mapping as the call leaves it, and whether it raised
Experience_handle_ai_variations(d) ==
    IF ~IsDict(d) THEN [data |-> d, raised |-> FALSE]
    ELSE DefaultCompany(AliasDescription(AliasTitle(d)))

(* -------------------- Education.handle_ai_variations ------------------- *)
\* a slip: location is tried before institution
Education_handle_ai_variations_LocationFirst(d) ==
    IF ~IsDict(d) \/ "university" \in DOMAIN d THEN [data |-> d, raised |-> FALSE]
    ELSE IF "location" \in DOMAIN d
         THEN [data |-> Put(d, "university", d["location"]), raised |-> FALSE]
         ELSE IF "institution" \in DOMAIN d
              THEN [data |-> Put(d, "university", d["institution"]), raised |-> FALSE]
              ELSE [data |-> d, raised |-> FALSE]

Education_handle_ai_variations(d) ==
    IF ~IsDict(d) \/ "university" \in DOMAIN d THEN [data |-> d, raised |-> FALSE]
    ELSE IF "institution" \in DOMAIN d
         THEN [data |-> Put(d, "university", d["institution"]), raised |-> FALSE]
         ELSE IF "location" \in DOMAIN d
              THEN [data |-> Put(d, "university", d["location"]), raised |-> FALSE]
              ELSE [data |-> d, raised |-> FALSE]

(* ------------------ inputs of the reconciliation runs ------------------ *)
S_Dev == <<"D", "e", "v">>

S_Acme == <<"A", "c", "m", "e">>

S_MIT == <<"M", "I", "T">>

S_ProjectLead == <<"P", "r", "o", "j", "e", "c", "t", " ", "L", "e", "a", "d">>

S_PROJECT == <<"P", "R", "O", "J", "E", "C", "T">>

\* the mapping that holds the keys of r whose value is not Absent
Mapping(r) == [k \in {x \in DOMAIN r : r[x] # Absent} |-> r[k]]

\* a JSON object met where a field value is expected
JObj == [name |-> JStr(S_Dev)]

RoleValues ==
    {Absent, JStr(<<>>), JStr(S_Dev), JStr(S_ProjectLead), JStr(S_PROJECT), JNone, JInt(7),
     JArr(<<>>), JObj}

ExperienceInputs ==
    {Mapping(r) : r \in [role : RoleValues, title : RoleValues,
                         summary : {Absent, JStr(S_Dev), JNone},
                         description : {Absent, JStr(S_Dev), JStr(S_Acme)},
                         company : {Absent, JStr(S_Acme), JNone, JInt(7)}]}

UniversityValues == {Absent, JStr(<<>>), JStr(S_MIT), JStr(S_Dev), JNone}

EducationInputs ==
    {Mapping(r) : r \in [degree : {Absent, JStr(S_Dev)}, university : UniversityValues,
                         institution : UniversityValues, location : UniversityValues]}

\* elements that are not JSON objects
NonDictInputs == {JStr(S_Dev), JNone}

NoOutcome == [data |-> NoData, raised |-> FALSE]

InitRecon ==
    /\ pc = "recon_start"
    /\ ServiceOff
    /\ \/ cls = "Experience" /\ data \in ExperienceInputs \cup NonDictInputs
       \/ cls = "Education" /\ data \in EducationInputs \cup NonDictInputs
    /\ once = NoOutcome
    /\ twice = NoOutcome
    /\ text = <<>>
    /\ cleaned = <<>>
    /\ recleaned = <<>>
    /\ body = NoData
    /\ result = NoData

ExperienceOnce ==
    /\ pc = "recon_start"
    /\ cls = "Experience"
    /\ once' = Experience_handle_ai_variations(data)
    /\ pc' = "reconciled"
    /\ UNCHANGED <<text, cleaned, recleaned, cls, data, twice, body, result>>
    /\ UNCHANGED svars

\* the mapping is changed in place, so a second call sees what the first left
ExperienceTwice ==
    /\ pc = "reconciled"
    /\ cls = "Experience"
    /\ twice' = Experience_handle_ai_variations(once.data)
    /\ pc' = "reconciled_twice"
    /\ UNCHANGED <<text, cleaned, recleaned, cls, data, once, body, result>>
    /\ UNCHANGED svars

EducationOnce ==
    /\ pc = "recon_start"
    /\ cls = "Education"
    /\ once' = Education_handle_ai_variations(data)
    /\ pc' = "reconciled"
    /\ UNCHANGED <<text, cleaned, recleaned, cls, data, twice, body, result>>
    /\ UNCHANGED svars

EducationTwice ==
    /\ pc = "reconciled"
    /\ cls = "Education"
    /\ twice' = Education_handle_ai_variations(once.data)
    /\ pc' = "reconciled_twice"
    /\ UNCHANGED <<text, cleaned, recleaned, cls, data, once, body, result>>
    /\ UNCHANGED svars

NextRecon == ExperienceOnce \/ ExperienceTwice \/ EducationOnce \/ EducationTwice

SpecRecon == InitRecon /\ [][NextRecon]_vars

(* ------------------------- pydantic validation ------------------------- *)
\* the outcome of validating one value: "ok" with the typed value, "error"
\* (a line of a ValidationError), or "AttributeError" (an exception of a
\* validator that pydantic does not turn into a ValidationError)
Ok(v) == [status |-> "ok", value |-> v]

Invalid == [status |-> "error", value |-> JNone]

Raised == [status |-> "AttributeError", value |-> JNone]

\* field: str
ValidateStr(v) == IF TypeOf(v) = "str" THEN Ok(v) ELSE Invalid

\* field: Optional[str] = None
ValidateOptionalStr(v) == IF TypeOf(v) \in {"str", "NoneType"} THEN Ok(v) ELSE Invalid

Digits == <<"0", "1", "2", "3", "4", "5", "6", "7", "8", "9">>

DigitValue(c) == (CHOOSE i \in 1..10 : Digits[i] = c) - 1

IsIntLike(chars) ==
    chars # <<>> /\ \A i \in 1..Len(chars) : \E j \in 1..10 : Digits[j] = chars[i]

RECURSIVE StrToInt(_)
StrToInt(chars) ==
    IF chars = <<>> THEN 0
    ELSE 10 * StrToInt(SubSeq(chars, 1, Len(chars) - 1)) + DigitValue(chars[Len(chars)])

\* field: int (lax mode: a str of digits is converted)
ValidateInt(v) ==
    IF TypeOf(v) = "int" THEN Ok(v)
    ELSE IF TypeOf(v) = "str" /\ IsIntLike(v.s) THEN Ok(JInt(StrToInt(v.s)))
    ELSE Invalid

\* field: Optional[int] = None
ValidateOptionalInt(v) == IF TypeOf(v) = "NoneType" THEN Ok(v) ELSE ValidateInt(v)

AllOk(rs) == \A i \in 1..Len(rs) : rs[i].status = "ok"

\* the items of a JSON array (none for any other value)
ItemsOf(v) == IF TypeOf(v) = "list" THEN v.items ELSE <<>>

\* field: List[X], rs being the outcomes of validating the items in turn; an
\* exception of an item's validator leaves the whole validation
ListOutcome(v, rs) ==
    IF TypeOf(v) # "list" THEN Invalid
    ELSE IF \E i \in 1..Len(rs) : rs[i].status = "AttributeError" THEN Raised
    ELSE IF \E i \in 1..Len(rs) : rs[i].status = "error" THEN Invalid
    ELSE Ok([i \in 1..Len(rs) |-> rs[i].value])

\* field: List[str]
ValidateStrList(v) ==
    ListOutcome(v, [i \in 1..Len(ItemsOf(v)) |-> ValidateStr(ItemsOf(v)[i])])

\* field: Dict[str, List[str]]
ValidateSkills(v) ==
    IF ~IsDict(v) THEN Invalid
    ELSE IF \A k \in DOMAIN v : ValidateStrList(v[k]).status = "ok"
         THEN Ok([k \in DOMAIN v |-> ValidateStrList(v[k]).value])
         ELSE Invalid

\* the value of a required field: a missing key fails every field type
Required(d, k) == Get(d, k, Absent)

\* the value of a field with default None
Defaulted(d, k) == Get(d, k, JNone)

\* class Experience: the before-validator, then the fields
Experience_validate(elem) ==
    LET h == Experience_handle_ai_variations(elem)
        d == h.data
    IN  IF h.raised THEN Raised
        ELSE IF ~IsDict(d) THEN Invalid
        ELSE LET role == ValidateStr(Required(d, "role"))
                 company == ValidateOptionalStr(Defaulted(d, "company"))
                 summary == ValidateOptionalStr(Defaulted(d, "summary"))
             IN  IF AllOk(<<role, company, summary>>)
                 THEN Ok([role |-> role.value, company |-> company.value,
                          summary |-> summary.value])
                 ELSE Invalid

\* a slip: university declared Optional[str] = None
Education_validate_OptionalUniversity(elem) ==
    LET h == Education_handle_ai_variations(elem)
        d == h.data
    IN  IF ~IsDict(d) THEN Invalid
        ELSE LET degree == ValidateStr(Required(d, "degree"))
                 university == ValidateOptionalStr(Defaulted(d, "university"))
                 year == ValidateOptionalInt(Defaulted(d, "graduation_year"))
             IN  IF AllOk(<<degree, university, year>>)
                 THEN Ok([degree |-> degree.value, university |-> university.value,
                          graduation_year |-> year.value])
                 ELSE Invalid

\* class Education: the before-validator, then the fields
Education_validate(elem) ==
    LET h == Education_handle_ai_variations(elem)
        d == h.data
    IN  IF ~IsDict(d) THEN Invalid
        ELSE LET degree == ValidateStr(Required(d, "degree"))
                 university == ValidateStr(Required(d, "university"))
                 year == ValidateOptionalInt(Defaulted(d, "graduation_year"))
             IN  IF AllOk(<<degree, university, year>>)
                 THEN Ok([degree |-> degree.value, university |-> university.value,
                          graduation_year |-> year.value])
                 ELSE Invalid

\* field: List[Experience]
ValidateExperienceList(v) ==
    ListOutcome(v, [i \in 1..Len(ItemsOf(v)) |-> Experience_validate(ItemsOf(v)[i])])

\* field: List[Education]
ValidateEducationList(v) ==
    ListOutcome(v, [i \in 1..Len(ItemsOf(v)) |-> Education_validate(ItemsOf(v)[i])])

\* class ParsedResume
ParsedResume_validate(doc) ==
    IF ~IsDict(doc) THEN Invalid
    ELSE LET skills == ValidateSkills(Required(doc, "skills"))
             experience == ValidateExperienceList(Required(doc, "experience"))
             education == ValidateEducationList(Required(doc, "education"))
         IN  IF experience.status = "AttributeError" THEN Raised
             ELSE IF AllOk(<<skills, experience, education>>)
                  THEN Ok([skills |-> skills.value, experience |-> experience.value,
                           education |-> education.value])
                  ELSE Invalid

\* class RoadmapStep
RoadmapStep_validate(elem) ==
    IF ~IsDict(elem) THEN Invalid
    ELSE LET step == ValidateInt(Required(elem, "step"))
             title == ValidateStr(Required(elem, "title"))
             description == ValidateStr(Required(elem, "description"))
             resources == ValidateStrList(Required(elem, "resources"))
         IN  IF AllOk(<<step, title, description, resources>>)
             THEN Ok([step |-> step.value, title |-> title.value,
                      description |-> description.value, resources |-> resources.value])
             ELSE Invalid

\* field: List[RoadmapStep]
ValidateStepList(v) ==
    ListOutcome(v, [i \in 1..Len(ItemsOf(v)) |-> RoadmapStep_validate(ItemsOf(v)[i])])

\* class RoadmapResponse
RoadmapResponse_validate(doc) ==
    IF ~IsDict(doc) THEN Invalid
    ELSE LET roadmap == ValidateStepList(Required(doc, "roadmap"))
         IN  IF roadmap.status = "ok" THEN Ok([roadmap |-> roadmap.value]) ELSE Invalid

(* --------------------------- the AI reply text ------------------------- *)
\* the place in a reply text where the serialised JSON document stands; the
\* document itself is kept decoded, in body
DOC == "{json document}"

\* what a text that is not JSON decodes to: no value, so no model accepts it
\* (pydantic reports the syntax error as a ValidationError)
NotJson == [t |-> "json_invalid", s |-> <<>>, n |-> 0]

\* the JSON decoder of model_validate_json: whitespace, one document, whitespace
IsJsonText(t) == Strip(t) = <<DOC>>

Decode(t, doc) == IF IsJsonText(t) THEN doc ELSE NotJson

\* parse_resume, from the AI reply on: 200 with the ParsedResume, the 422 of
\* the except clause, or the exception the except clause does not name
parse_resume(raw_text, doc) ==
    LET clean_text == clean_json_response(raw_text)
        r == ParsedResume_validate(Decode(clean_text, doc))
    IN  IF r.status = "ok" THEN [kind |-> "ParsedResume", value |-> r.value]
        ELSE IF r.status = "error" THEN [kind |-> "HTTP422", value |-> JNone]
        ELSE [kind |-> "AttributeError", value |-> JNone]

\* generate_roadmap, from the AI reply on
generate_roadmap(raw_text, doc) ==
    LET clean_text == clean_json_response(raw_text)
        r == RoadmapResponse_validate(Decode(clean_text, doc))
    IN  IF r.status = "ok" THEN [kind |-> "RoadmapResponse", value |-> r.value]
        ELSE IF r.status = "error" THEN [kind |-> "HTTP422", value |-> JNone]
        ELSE [kind |-> "AttributeError", value |-> JNone]

(* ------------------ inputs of the normalisation runs ------------------- *)
Opens == {Fence, FenceJson}

Seps == {<<>>, <<NL>>}

S_2020 == <<"2", "0", "2", "0">>

\* all sequences of at most n elements of S
RECURSIVE SeqsUpTo(_, _)
SeqsUpTo(S, n) ==
    IF n = 0 THEN {<<>>}
    ELSE LET prev == SeqsUpTo(S, n - 1)
         IN  prev \cup {Append(q, e) : q \in prev, e \in S}

ValidSkills == [Languages |-> JArr(<<JStr(S_Dev)>>)]

SkillsValues == {Absent, ValidSkills, [Languages |-> JStr(S_Dev)], JNone}

EducationElements ==
    {Mapping(r) : r \in [degree : {Absent, JStr(<<>>), JStr(S_Dev), JInt(7)},
                         university : {Absent, JStr(<<>>), JStr(S_MIT), JNone},
                         institution : {Absent, JStr(<<>>), JStr(S_MIT)},
                         location : {Absent, JStr(S_Dev)},
                         graduation_year : {Absent, JInt(2020), JStr(S_2020), JStr(S_Dev), JNone}]}

\* elements used in the longer lists
CommonExperience ==
    {[role |-> JStr(S_Dev), company |-> JStr(S_Acme)], [title |-> JStr(S_ProjectLead)],
     [company |-> JStr(S_Acme)], [role |-> JNone]}

CommonEducation ==
    {[degree |-> JStr(S_Dev), university |-> JStr(S_MIT)],
     [degree |-> JStr(S_Dev), institution |-> JStr(S_MIT), graduation_year |-> JStr(S_2020)],
     [degree |-> JStr(S_Dev)]}

CommonSteps ==
    {[step |-> JInt(1), title |-> JStr(S_Dev), description |-> JStr(S_Acme),
      resources |-> JArr(<<JStr(S_MIT)>>)],
     [step |-> JStr(S_2020), title |-> JStr(S_Dev), description |-> JStr(S_Acme),
      resources |-> JArr(<<>>)],
     [step |-> JInt(1), description |-> JStr(S_Acme), resources |-> JArr(<<>>)],
     [step |-> JInt(1), title |-> JStr(S_Dev), description |-> JStr(S_Acme),
      resources |-> JStr(S_MIT)],
     JNone}

ListValues(S) == {Absent, JNone} \cup {JArr(q) : q \in SeqsUpTo(S, MaxElems)}

\* resume replies: one element drawn from the full input sets, or every
\* combination of the three fields over the common elements
ResumeDocs ==
    {[skills |-> ValidSkills, experience |-> JArr(<<e>>), education |-> JArr(<<>>)] :
        e \in ExperienceInputs \cup NonDictInputs}
    \cup
    {[skills |-> ValidSkills, experience |-> JArr(<<>>), education |-> JArr(<<e>>)] :
        e \in EducationElements \cup NonDictInputs}
    \cup
    {Mapping(r) : r \in [skills : SkillsValues, experience : ListValues(CommonExperience),
                         education : ListValues(CommonEducation)]}

RoadmapDocs == {Mapping(r) : r \in [roadmap : ListValues(CommonSteps)]}

\* a JSON document that is not an object
NonObjectDocs == {JArr(<<>>)}

Docs == ResumeDocs \cup RoadmapDocs \cup NonObjectDocs

\* a few documents, met in every wrapping
FewDocs ==
    {[roadmap |-> JArr(<<>>)],
     [roadmap |-> JArr(<<CHOOSE e \in CommonSteps : IsDict(e) /\ ValidateStepList(JArr(<<e>>)).status = "ok">>)],
     [skills |-> ValidSkills, experience |-> JArr(<<[title |-> JStr(S_ProjectLead)]>>),
      education |-> JArr(<<[degree |-> JStr(S_Dev), location |-> JStr(S_MIT)]>>)],
     [skills |-> ValidSkills, experience |-> JArr(<<[role |-> JNone]>>), education |-> JArr(<<>>)],
     [skills |-> ValidSkills]}

JsonFenced == FenceJson \o <<NL, DOC, NL>> \o Fence

\* reply texts: fenced or not, tagged or not, with and without a document
ReplyTexts ==
    {o \o sp \o j \o sp \o c :
        o \in {<<>>, Fence, FenceJson, Fence \o <<"a">>}, sp \in Seps,
        j \in {<<DOC>>, <<" ", DOC, NL>>, <<"a">>, <<>>}, c \in {<<>>, Fence}}

NoResult == [kind |-> "none", value |-> JNone]

InitParse ==
    /\ pc = "replied"
    /\ ServiceOff
    /\ \/ text \in ReplyTexts /\ body \in FewDocs
       \/ text \in {<<DOC>>, JsonFenced} /\ body \in Docs
    /\ cls = "none"
    /\ result = NoResult
    /\ cleaned = <<>>
    /\ recleaned = <<>>
    /\ data = NoData
    /\ once = NoOutcome
    /\ twice = NoOutcome

\* POST /api/parse-resume, once call_gemini_api has returned text
ParseResume ==
    /\ pc = "replied"
    /\ cls' = "ParsedResume"
    /\ cleaned' = clean_json_response(text)
    /\ result' = parse_resume(text, body)
    /\ pc' = "responded"
    /\ UNCHANGED <<text, recleaned, data, once, twice, body>>
    /\ UNCHANGED svars

\* POST /api/generate-roadmap, once call_gemini_api has returned text
GenerateRoadmap ==
    /\ pc = "replied"
    /\ cls' = "RoadmapResponse"
    /\ cleaned' = clean_json_response(text)
    /\ result' = generate_roadmap(text, body)
    /\ pc' = "responded"
    /\ UNCHANGED <<text, recleaned, data, once, twice, body>>
    /\ UNCHANGED svars

NextParse == ParseResume \/ GenerateRoadmap

SpecParse == InitParse /\ [][NextParse]_vars

(* ----------------- the src/main.py variant of the handlers ------------- *)
\* parse_resume of src/main.py, from the AI reply on: the reply goes to
\* model_validate_json as it came
main_parse_resume(parsed_text, doc) ==
    LET r == ParsedResume_validate(Decode(parsed_text, doc))
    IN  IF r.status = "ok" THEN [kind |-> "ParsedResume", value |-> r.value]
        ELSE IF r.status = "error" THEN [kind |-> "HTTP422", value |-> JNone]
        ELSE [kind |-> "AttributeError", value |-> JNone]

\* generate_roadmap of src/main.py, from the AI reply on
main_generate_roadmap(parsed_text, doc) ==
    LET r == RoadmapResponse_validate(Decode(parsed_text, doc))
    IN  IF r.status = "ok" THEN [kind |-> "RoadmapResponse", value |-> r.value]
        ELSE IF r.status = "error" THEN [kind |-> "HTTP422", value |-> JNone]
        ELSE [kind |-> "AttributeError", value |-> JNone]

\* POST /parse-resume of src/main.py, once call_gemini_api has returned text
ParseResumeMain ==
    /\ pc = "replied"
    /\ cls' = "ParsedResume"
    /\ result' = main_parse_resume(text, body)
    /\ pc' = "responded_main"
    /\ UNCHANGED <<text, cleaned, recleaned, data, once, twice, body>>
    /\ UNCHANGED svars

\* POST /generate-roadmap of src/main.py, once call_gemini_api has returned text
GenerateRoadmapMain ==
    /\ pc = "replied"
    /\ cls' = "RoadmapResponse"
    /\ result' = main_generate_roadmap(text, body)
    /\ pc' = "responded_main"
    /\ UNCHANGED <<text, cleaned, recleaned, data, once, twice, body>>
    /\ UNCHANGED svars

NextVariants == ParseResume \/ GenerateRoadmap \/ ParseResumeMain \/ GenerateRoadmapMain

\* both variants of the service, on the same replies
SpecVariants == InitParse /\ [][NextVariants]_vars

(* ------------------------- claims on the cleanup ----------------------- *)
HasOuterFence(s) == StartsWith(s, Fence) \/ EndsWith(s, Fence)

\* C2 (as stated): cleaning a cleaned text changes nothing, for every input.
C2_CleanIdempotent == pc = "recleaned" => recleaned = cleaned

\* C2 (amended): a second cleanup changes nothing exactly when the first result
\* neither starts nor ends with a fence marker.
C2_IdempotentIffNoOuterFence ==
    pc = "recleaned" => ((recleaned = cleaned) <=> ~HasOuterFence(cleaned))

C2_Witness ==
    /\ pc = "recleaned"
    /\ StartsWith(text, FenceJson)
    /\ EndsWith(text, Fence)
    /\ cleaned # <<>>
    /\ ~HasOuterFence(cleaned)
    /\ recleaned = cleaned

\* text = open + sep + x + sep + fence, for some x
IsWrap(t, open, sep) ==
    /\ Len(t) >= Len(open) + 2 * Len(sep) + 3
    /\ StartsWith(t, open \o sep)
    /\ EndsWith(t, sep \o Fence)

Inner(t, open, sep) == SubSeq(t, Len(open) + Len(sep) + 1, Len(t) - Len(sep) - 3)

\* C3 (as stated): cleaning a fenced x that holds no fence marker gives trim(x).
C3_WrapGivesTrim ==
    pc # "clean_start" =>
        \A open \in Opens, sep \in Seps :
            (IsWrap(text, open, sep) /\ ~Contains(Inner(text, open, sep), Fence))
                => cleaned = Strip(Inner(text, open, sep))

\* C3 (amended): cleaning a fenced x that holds no fence marker gives trim(x),
\* except that a bare opening marker directly followed by an x that begins with
\* "json" is read as the tagged marker, and the result is trim(x[4:]).
C3_WrapGivesTrimUnlessJsonPrefix ==
    pc # "clean_start" =>
        \A open \in Opens, sep \in Seps :
            (IsWrap(text, open, sep) /\ ~Contains(Inner(text, open, sep), Fence))
                => LET x == Inner(text, open, sep)
                   IN  cleaned = Strip(IF open = Fence /\ sep = <<>> /\ StartsWith(x, Json4)
                                       THEN Drop(x, 4) ELSE x)

C3_Witness ==
    /\ pc = "cleaned"
    /\ IsWrap(text, FenceJson, <<NL>>)
    /\ ~Contains(Inner(text, FenceJson, <<NL>>), Fence)
    /\ Len(Inner(text, FenceJson, <<NL>>)) >= 2
    /\ cleaned # <<>>
    /\ cleaned = Strip(Inner(text, FenceJson, <<NL>>))

\* the characters a language tag is made of
TagChars == {"j", "s", "o", "n", "a"}

\* length of the language tag that follows the opening marker of s
TagLen(s) ==
    LET stop == {i \in 4..Len(s) : s[i] \notin TagChars}
    IN  IF stop = {} THEN Len(s) - 3 ELSE Min(stop) - 4

\* C4: when the trimmed input starts with the opening marker (three backquotes,
\* not more), the marker and its language tag, whatever the tag, are removed:
\* the result is what follows the tag, without the closing marker, trimmed.
C4_OpeningMarkerAndTagRemoved ==
    (/\ pc # "clean_start"
     /\ StartsWith(Strip(text), Fence)
     /\ ~StartsWith(Strip(text), Fence \o <<BQ>>)) =>
        LET s == Strip(text)
        IN  cleaned = Strip(RemoveClose(Drop(s, 3 + TagLen(s))))

(* --------------------- claims on the reconciliation -------------------- *)
\* C5: for both record types, a second handle_ai_variations leaves the mapping
\* (and the way the call ends) as the first one left it.
C5_ReconcileIdempotent == pc = "reconciled_twice" => twice = once

C5_Witness ==
    /\ pc = "reconciled_twice"
    /\ IsDict(data)
    /\ once.data # data
    /\ twice = once

AllStr(d) == \A k \in DOMAIN d : TypeOf(d[k]) = "str"

\* is key k of the result as the reference says: set to v when cond, else as in the input
SetIff(in, out, k, cond, v) ==
    IF cond THEN k \in DOMAIN out /\ out[k] = v
    ELSE (k \in DOMAIN out <=> k \in DOMAIN in) /\ (k \in DOMAIN in => out[k] = in[k])

\* C6: on a mapping with string values, role is set to title iff title is
\* present and role absent, summary to description iff description is present
\* and summary absent, company to "Personal Project" iff the resolved role,
\* lower-cased, contains "project" and company is absent; {"title": "Project
\* Lead"} gains role "Project Lead" and company "Personal Project".
C6_ExperienceReference ==
    (pc # "recon_start" /\ cls = "Experience" /\ IsDict(data) /\ AllStr(data)) =>
        LET out == once.data
            resolved == IF "title" \in DOMAIN data /\ "role" \notin DOMAIN data
                        THEN data["title"].s
                        ELSE IF "role" \in DOMAIN data THEN data["role"].s ELSE <<>>
        IN  /\ ~once.raised
            /\ SetIff(data, out, "role",
                      "title" \in DOMAIN data /\ "role" \notin DOMAIN data, Get(data, "title", Absent))
            /\ SetIff(data, out, "summary",
                      "description" \in DOMAIN data /\ "summary" \notin DOMAIN data,
                      Get(data, "description", Absent))
            /\ SetIff(data, out, "company",
                      Contains(Lower(resolved), S_project) /\ "company" \notin DOMAIN data,
                      JStr(S_PersonalProject))
            /\ (data = [title |-> JStr(S_ProjectLead)] =>
                    out = [title |-> JStr(S_ProjectLead), role |-> JStr(S_ProjectLead),
                           company |-> JStr(S_PersonalProject)])

C6_Witness ==
    /\ pc = "reconciled"
    /\ cls = "Experience"
    /\ data = [title |-> JStr(S_ProjectLead)]
    /\ once.data["company"] = JStr(S_PersonalProject)

\* C7: a present university is left as is; otherwise university becomes
\* institution's value when institution is present, else location's value when
\* location is present, else it stays absent.
C7_EducationReference ==
    (pc # "recon_start" /\ cls = "Education" /\ IsDict(data)) =>
        LET out == once.data
        IN  /\ ~once.raised
            /\ IF "university" \in DOMAIN data THEN out["university"] = data["university"]
               ELSE IF "institution" \in DOMAIN data THEN out["university"] = data["institution"]
               ELSE IF "location" \in DOMAIN data THEN out["university"] = data["location"]
               ELSE "university" \notin DOMAIN out

C7_Witness ==
    /\ pc = "reconciled"
    /\ cls = "Education"
    /\ IsDict(data)
    /\ DOMAIN data = {"institution", "location"}
    /\ data["institution"] # data["location"]
    /\ once.data["university"] = data["institution"]

CanonicalKeys == [Experience |-> {"role", "summary", "company"}, Education |-> {"university"}]

\* C8: every key present before the call is present after it with the same
\* value, and only canonical keys are added.
C8_ReconcileAdditive ==
    pc # "recon_start" =>
        IF IsDict(data)
        THEN /\ \A k \in DOMAIN data : k \in DOMAIN once.data /\ once.data[k] = data[k]
             /\ (DOMAIN once.data) \ (DOMAIN data) \subseteq CanonicalKeys[cls]
        ELSE once.data = data

C8_Witness ==
    /\ pc = "reconciled"
    /\ cls = "Experience"
    /\ IsDict(data)
    /\ {"title", "role"} \subseteq DOMAIN data
    /\ data["title"] # data["role"]
    /\ "description" \in DOMAIN data
    /\ (DOMAIN once.data) \ (DOMAIN data) = {"summary", "company"}

(* --------------------- claims on the normalisation --------------------- *)
\* C1: whatever the AI reply, parse_resume ends with a ParsedResume or with
\* the bad-format error (HTTP 422); no other exception escapes.
C1_OnlyFormatErrorEscapes ==
    (pc = "responded" /\ cls = "ParsedResume") => result.kind \in {"ParsedResume", "HTTP422"}

Items(q) == {q[i] : i \in 1..Len(q)}

\* C9 (as stated): in every returned ParsedResume each Experience has a
\* non-empty role and each Education a non-empty degree and university.
C9_FieldsNonEmpty ==
    (pc = "responded" /\ result.kind = "ParsedResume") =>
        /\ \A e \in Items(result.value.experience) : TypeOf(e.role) = "str" /\ e.role.s # <<>>
        /\ \A e \in Items(result.value.education) :
              /\ TypeOf(e.degree) = "str" /\ e.degree.s # <<>>
              /\ TypeOf(e.university) = "str" /\ e.university.s # <<>>

\* C9 (amended): in every returned ParsedResume each Experience has a role
\* that is a str and each Education a degree and a university that are str
\* (never missing, never None); the strings may be empty.
C9_FieldsAreStrings ==
    (pc = "responded" /\ result.kind = "ParsedResume") =>
        /\ \A e \in Items(result.value.experience) : TypeOf(e.role) = "str"
        /\ \A e \in Items(result.value.education) :
              TypeOf(e.degree) = "str" /\ TypeOf(e.university) = "str"

C9_Witness ==
    /\ pc = "responded"
    /\ result.kind = "ParsedResume"
    /\ Len(result.value.education) = 1
    /\ "university" \notin DOMAIN body["education"].items[1]
    /\ result.value.education[1].university = JStr(<<>>)
    /\ result.value.education[1].degree = JStr(S_Dev)

\* C10: a JSON text that validates as a RoadmapResponse gives the same
\* RoadmapResponse when it comes inside a json-tagged fenced block; the fenced
\* {"roadmap": []} gives RoadmapResponse(roadmap=[]).
C10_FencedRoadmapSame ==
    (pc = "responded" /\ cls = "RoadmapResponse") =>
        /\ \A sp \in Seps :
              (/\ IsWrap(text, FenceJson, sp)
               /\ generate_roadmap(Inner(text, FenceJson, sp), body).kind = "RoadmapResponse")
                  => result = generate_roadmap(Inner(text, FenceJson, sp), body)
        /\ (text = JsonFenced /\ body = [roadmap |-> JArr(<<>>)])
              => result = [kind |-> "RoadmapResponse", value |-> [roadmap |-> <<>>]]

C10_Witness ==
    /\ pc = "responded"
    /\ cls = "RoadmapResponse"
    /\ text = JsonFenced
    /\ IsDict(body)
    /\ "roadmap" \in DOMAIN body
    /\ result.kind = "RoadmapResponse"
    /\ Len(result.value.roadmap) = MaxElems
    /\ result.value.roadmap[1].step = JInt(2020)

\* the decoded document, when the cleaned reply is JSON
IsResumeRun == pc = "responded" /\ cls = "ParsedResume" /\ IsJsonText(cleaned) /\ IsDict(body)

\* C11: each element of experience and education is reconciled and validated
\* on its own; a ParsedResume is returned exactly when the skills mapping and
\* every element are valid, and it then holds every element's typed value; in
\* every other case the call ends in the bad-format error (HTTP 422).
C11_AllOrNothing ==
    IsResumeRun =>
        LET exp == ItemsOf(Get(body, "experience", Absent))
            edu == ItemsOf(Get(body, "education", Absent))
            allValid ==
                /\ ValidateSkills(Get(body, "skills", Absent)).status = "ok"
                /\ TypeOf(Get(body, "experience", Absent)) = "list"
                /\ TypeOf(Get(body, "education", Absent)) = "list"
                /\ \A i \in 1..Len(exp) : Experience_validate(exp[i]).status = "ok"
                /\ \A i \in 1..Len(edu) : Education_validate(edu[i]).status = "ok"
        IN  IF allValid
            THEN /\ result.kind = "ParsedResume"
                 /\ Len(result.value.experience) = Len(exp)
                 /\ Len(result.value.education) = Len(edu)
                 /\ \A i \in 1..Len(exp) :
                        result.value.experience[i] = Experience_validate(exp[i]).value
                 /\ \A i \in 1..Len(edu) :
                        result.value.education[i] = Education_validate(edu[i]).value
            ELSE result.kind = "HTTP422"

\* C16: on every AI reply, fenced or not, the handlers of src/main.py end as
\* the handlers of src/api/index.py do: the same typed object or the same error.
C16_VariantsAgree ==
    /\ (pc = "responded_main" /\ cls = "ParsedResume") => result = parse_resume(text, body)
    /\ (pc = "responded_main" /\ cls = "RoadmapResponse") => result = generate_roadmap(text, body)
    /\ (pc = "responded" /\ cls = "ParsedResume") => result = main_parse_resume(text, body)
    /\ (pc = "responded" /\ cls = "RoadmapResponse") => result = main_generate_roadmap(text, body)

(* --------------------- the service: accounts and roadmaps -------------- *)
\* bound: UserAccount documents the store takes
MaxUsers == 2

\* bound: SavedRoadmap documents inserted in one run
MaxRoadmaps == 1

\* bound: calls of call_gemini_api counted on one request
MaxCalls == 2

Emails == {"ann@x.io", "bob@x.io"}

\* the connections requests arrive on, each handled as its own coroutine
Clients == {"c1", "c2"}

\* the deployments: src/main.py refuses to start without JWT_SECRET_KEY,
\* src/api/index.py starts without one
Configs ==
    {[variant |-> "main", key_ok |-> TRUE],
     [variant |-> "index", key_ok |-> TRUE],
     [variant |-> "index", key_ok |-> FALSE]}

\* a bearer token: the key that signed it, its sub claim, whether exp has passed
Token(key, sub, expired) == [key |-> key, sub |-> sub, expired |-> expired]

\* a request without an Authorization header
NoToken == Token("none", "none", FALSE)

\* find_one(UserAccount.email == e) finds a document
Registered(accounts, e) == accounts[e] > 0

\* what a client can present: nothing, a token login hands out (to registered
\* emails, when the server has a key; still valid or expired by now), or a
\* token signed with a key of its own
Presentable(cfg, accounts) ==
    {NoToken}
    \cup {Token("server", e, x) : e \in {m \in Emails : cfg.key_ok /\ Registered(accounts, m)},
                                  x \in BOOLEAN}
    \cup {Token("forged", "ann@x.io", FALSE)}

HTTP_200 == 200
HTTP_201 == 201
HTTP_204 == 204
HTTP_400 == 400
HTTP_401 == 401
HTTP_403 == 403
HTTP_404 == 404
HTTP_422 == 422
HTTP_500 == 500
HTTP_502 == 502

\* get_current_user with the signature check left out
get_current_user_NoSignatureCheck(cfg, token, accounts) ==
    IF token.key = "none" THEN [status |-> HTTP_401, email |-> "none"]
    ELSE IF cfg.variant = "index" /\ ~cfg.key_ok THEN [status |-> HTTP_500, email |-> "none"]
    ELSE IF token.expired THEN [status |-> HTTP_401, email |-> "none"]
    ELSE IF token.sub = "none" THEN [status |-> HTTP_401, email |-> "none"]
    ELSE IF ~Registered(accounts, token.sub)
         THEN [status |-> HTTP_401, email |-> "none"]
    ELSE [status |-> HTTP_200, email |-> token.sub]

\* get_current_user: OAuth2PasswordBearer answers 401 without a header;
\* jwt.decode raises JWTError on a foreign signature or a passed exp
get_current_user(cfg, token, accounts) ==
    IF token.key = "none" THEN [status |-> HTTP_401, email |-> "none"]
    ELSE IF cfg.variant = "index" /\ ~cfg.key_ok THEN [status |-> HTTP_500, email |-> "none"]
    ELSE IF token.key # "server" \/ token.expired THEN [status |-> HTTP_401, email |-> "none"]
    ELSE IF token.sub = "none" THEN [status |-> HTTP_401, email |-> "none"]
    ELSE IF ~Registered(accounts, token.sub)
         THEN [status |-> HTTP_401, email |-> "none"]
    ELSE [status |-> HTTP_200, email |-> token.sub]

\* delete_roadmap with the ownership test left out
delete_roadmap_decision_NoOwnerCheck(stored, rid, email) ==
    IF ~\E m \in stored : m.id = rid THEN "HTTP404" ELSE "delete"

\* delete_roadmap after SavedRoadmap.get: 404, 403, or go on to delete
delete_roadmap_decision(stored, rid, email) ==
    IF ~\E m \in stored : m.id = rid THEN "HTTP404"
    ELSE IF (CHOOSE m \in stored : m.id = rid).user_email # email THEN "HTTP403"
    ELSE "delete"

\* what the handler does once the reply went through validation: it returns
\* or raises, whatever the outcome
AfterValidation(kind) == "done"

\* the status a parse-resume or generate-roadmap request ends with
StatusOf(kind) ==
    IF kind \in {"ParsedResume", "RoadmapResponse"} THEN HTTP_200
    ELSE IF kind = "HTTP422" THEN HTTP_422
    ELSE HTTP_500

\* the handler of the deployment, from the AI reply on
Handle(cfg, kind, t, doc) ==
    IF cfg.variant = "index"
    THEN IF kind = "parse" THEN parse_resume(t, doc) ELSE generate_roadmap(t, doc)
    ELSE IF kind = "parse" THEN main_parse_resume(t, doc) ELSE main_generate_roadmap(t, doc)

\* the AI replies the service meets
Replies ==
    {[text |-> <<DOC>>,
      body |-> [skills |-> ValidSkills,
                experience |-> JArr(<<[role |-> JStr(S_Dev), company |-> JStr(S_Acme)]>>),
                education |-> JArr(<<>>)]],
     [text |-> <<DOC>>,
      body |-> [skills |-> ValidSkills, experience |-> JArr(<<[role |-> JNone]>>),
                education |-> JArr(<<>>)]],
     [text |-> JsonFenced, body |-> [roadmap |-> JArr(<<>>)]],
     [text |-> <<DOC>>, body |-> [roadmap |-> JArr(<<>>)]],
     [text |-> <<"a">>, body |-> JArr(<<>>)]}

\* a connection with no request on it
Idle ==
    [kind |-> "none", pc |-> "done", email |-> "none", token |-> NoToken, rid |-> 0,
     user |-> "none", authed |-> FALSE, ai |-> 0, val |-> 0, wrote |-> FALSE,
     status |-> 0, outcome |-> "none"]

\* a request as it arrives
Request(kind, email, token, rid) ==
    [Idle EXCEPT !.kind = kind, !.pc = "arrived", !.email = email, !.token = token,
                 !.rid = rid]

\* a request as it ends: the response is sent and the coroutine's locals go
Finish(r, status) ==
    [Idle EXCEPT !.kind = r.kind, !.status = status, !.authed = r.authed, !.ai = r.ai,
                 !.val = r.val, !.wrote = r.wrote, !.outcome = r.outcome]

InitService ==
    /\ pc = "serving"
    /\ text = <<>>
    /\ cleaned = <<>>
    /\ recleaned = <<>>
    /\ cls = "none"
    /\ data = NoData
    /\ once = NoOutcome
    /\ twice = NoOutcome
    /\ body = NoData
    /\ result = NoResult
    /\ config \in Configs
    /\ users = [e \in Emails |-> 0]
    /\ roadmaps = {}
    /\ next_rid = 1
    /\ reqs = [c \in Clients |-> Idle]

RECURSIVE Total(_, _)
Total(f, S) == IF S = {} THEN 0 ELSE LET e == CHOOSE x \in S : TRUE
                                     IN  f[e] + Total(f, S \ {e})

\* the number of UserAccount documents
Stored(accounts) == Total(accounts, Emails)

\* POST /register up to the answer of find_one
RegisterFind(c, e) ==
    /\ pc = "serving"
    /\ reqs[c].pc = "done"
    /\ LET r == Request("register", e, NoToken, 0)
       IN  reqs' = [reqs EXCEPT ![c] =
                IF Registered(users, e)
                THEN Finish(r, HTTP_400)
                ELSE [r EXCEPT !.pc = "reg_insert"]]
    /\ UNCHANGED <<config, users, roadmaps, next_rid>>
    /\ UNCHANGED nvars

\* POST /register from new_user.insert() on
RegisterInsert(c) ==
    /\ pc = "serving"
    /\ reqs[c].pc = "reg_insert"
    /\ Stored(users) < MaxUsers
    /\ users' = [users EXCEPT ![reqs[c].email] = @ + 1]
    /\ reqs' = [reqs EXCEPT ![c] = Finish(@, HTTP_201)]
    /\ UNCHANGED <<config, roadmaps, next_rid>>
    /\ UNCHANGED nvars

\* POST /login: find_one, verify_password, create_access_token
Login(c, e, password_ok) ==
    /\ pc = "serving"
    /\ reqs[c].pc = "done"
    /\ LET r == Request("login", e, NoToken, 0)
       IN  reqs' = [reqs EXCEPT ![c] =
                IF ~Registered(users, e) \/ ~password_ok THEN Finish(r, HTTP_401)
                ELSE IF ~config.key_ok THEN Finish(r, HTTP_500)
                ELSE Finish(r, HTTP_200)]
    /\ UNCHANGED <<config, users, roadmaps, next_rid>>
    /\ UNCHANGED nvars

ProtectedKinds == {"parse", "generate", "save", "list", "delete"}

\* where each protected handler starts once get_current_user has returned
Entry == [parse |-> "call_ai", generate |-> "call_ai", save |-> "save_insert",
          list |-> "list_find", delete |-> "del_get"]

\* a protected request up to the answer of get_current_user; only
\* delete_roadmap takes a roadmap id
Authenticate(c, kind, token, rid) ==
    /\ pc = "serving"
    /\ reqs[c].pc = "done"
    /\ kind \in ProtectedKinds
    /\ (kind = "delete") = (rid > 0)
    /\ token \in Presentable(config, users)
    /\ LET r == Request(kind, "none", token, rid)
           a == get_current_user(config, token, users)
       IN  reqs' = [reqs EXCEPT ![c] =
                IF a.status = HTTP_200
                THEN [r EXCEPT !.pc = Entry[kind], !.user = a.email, !.authed = TRUE]
                ELSE Finish(r, a.status)]
    /\ UNCHANGED <<config, users, roadmaps, next_rid>>
    /\ UNCHANGED nvars

\* parse_resume and generate_roadmap: the call of call_gemini_api
CallGemini(c) ==
    /\ pc = "serving"
    /\ reqs[c].pc = "call_ai"
    /\ reqs[c].ai < MaxCalls
    /\ reqs' = [reqs EXCEPT ![c] = [@ EXCEPT !.ai = @ + 1, !.pc = "awaiting_ai"]]
    /\ UNCHANGED <<config, users, roadmaps, next_rid>>
    /\ UNCHANGED nvars

\* call_gemini_api raises: no API key, an HTTP error status, no candidates,
\* a timeout
GeminiFails(c, status) ==
    /\ pc = "serving"
    /\ reqs[c].pc = "awaiting_ai"
    /\ status \in {HTTP_500, HTTP_502}
    /\ reqs' = [reqs EXCEPT ![c] = Finish(@, status)]
    /\ UNCHANGED <<config, users, roadmaps, next_rid>>
    /\ UNCHANGED nvars

\* call_gemini_api returns text: one validation, then the response
GeminiReplies(c, reply) ==
    /\ pc = "serving"
    /\ reqs[c].pc = "awaiting_ai"
    /\ LET kind == Handle(config, reqs[c].kind, reply.text, reply.body).kind
           nxt == AfterValidation(kind)
           r == [reqs[c] EXCEPT !.val = @ + 1, !.outcome = kind]
       IN  reqs' = [reqs EXCEPT ![c] =
                IF nxt = "done" THEN Finish(r, StatusOf(kind)) ELSE [r EXCEPT !.pc = nxt]]
    /\ UNCHANGED <<config, users, roadmaps, next_rid>>
    /\ UNCHANGED nvars

\* save_roadmap: roadmap.insert()
SaveInsert(c) ==
    /\ pc = "serving"
    /\ reqs[c].pc = "save_insert"
    /\ next_rid <= MaxRoadmaps
    /\ roadmaps' = roadmaps \cup {[id |-> next_rid, user_email |-> reqs[c].user]}
    /\ next_rid' = next_rid + 1
    /\ reqs' = [reqs EXCEPT ![c] = Finish([@ EXCEPT !.wrote = TRUE], HTTP_201)]
    /\ UNCHANGED <<config, users>>
    /\ UNCHANGED nvars

\* get_my_roadmaps: find(user_email == current_user.email).to_list()
ListFind(c) ==
    /\ pc = "serving"
    /\ reqs[c].pc = "list_find"
    /\ reqs' = [reqs EXCEPT ![c] = Finish(@, HTTP_200)]
    /\ UNCHANGED <<config, users, roadmaps, next_rid>>
    /\ UNCHANGED nvars

\* delete_roadmap up to the two tests on what SavedRoadmap.get returned
DeleteGet(c) ==
    /\ pc = "serving"
    /\ reqs[c].pc = "del_get"
    /\ LET d == delete_roadmap_decision(roadmaps, reqs[c].rid, reqs[c].user)
       IN  reqs' = [reqs EXCEPT ![c] =
                IF d = "HTTP404" THEN Finish(@, HTTP_404)
                ELSE IF d = "HTTP403" THEN Finish(@, HTTP_403)
                ELSE [@ EXCEPT !.pc = "del_delete"]]
    /\ UNCHANGED <<config, users, roadmaps, next_rid>>
    /\ UNCHANGED nvars

\* delete_roadmap: roadmap.delete()
DeleteDelete(c) ==
    /\ pc = "serving"
    /\ reqs[c].pc = "del_delete"
    /\ roadmaps' = {m \in roadmaps : m.id # reqs[c].rid}
    /\ reqs' = [reqs EXCEPT ![c] = Finish([@ EXCEPT !.wrote = TRUE], HTTP_204)]
    /\ UNCHANGED <<config, users, next_rid>>
    /\ UNCHANGED nvars

NextService ==
    \E c \in Clients :
        \/ \E e \in Emails : RegisterFind(c, e)
        \/ RegisterInsert(c)
        \/ \E e \in Emails, ok \in BOOLEAN : Login(c, e, ok)
        \/ \E kind \in ProtectedKinds, token \in Presentable(config, users),
              rid \in 0..MaxRoadmaps : Authenticate(c, kind, token, rid)
        \/ CallGemini(c)
        \/ \E status \in {HTTP_500, HTTP_502} : GeminiFails(c, status)
        \/ \E reply \in Replies : GeminiReplies(c, reply)
        \/ SaveInsert(c)
        \/ ListFind(c)
        \/ DeleteGet(c)
        \/ DeleteDelete(c)

SpecService == InitService /\ [][NextService]_vars

(* ------------------------- claims on the service ----------------------- *)
\* a parse-resume or generate-roadmap request
IsAiRequest(r) == r.kind \in {"parse", "generate"}

\* C12: a format failure is never retried locally: on every parse-resume or
\* generate-roadmap request call_gemini_api is called at most once and the
\* reply is validated at most once, and a reply that does not come out of
\* decoding and validation as the typed object ends the request with the
\* bad-format error (HTTP 422), after that one call and that one validation.
C12_NoLocalRetry ==
    pc = "serving" =>
        \A c \in Clients :
            LET r == reqs[c]
            IN  IsAiRequest(r) =>
                    /\ r.ai <= 1
                    /\ r.val <= 1
                    /\ (r.val = 1 /\ r.outcome \notin {"ParsedResume", "RoadmapResponse"})
                          => (r.pc = "done" /\ r.status = HTTP_422 /\ r.ai = 1)

\* the roadmap a delete request names is stored under another account's email
OthersRoadmap(r) == \E m \in roadmaps : m.id = r.rid /\ m.user_email # r.user

\* C13: a saved roadmap leaves the store only in the delete step of a request
\* that get_current_user accepted for the email the roadmap was saved under;
\* a delete for an unknown id ends in 404, a delete of another account's
\* roadmap ends in 403, and neither changes the set of saved roadmaps.
C13_DeleteOnlyOwn ==
    [][pc = "serving" =>
        /\ \A m \in roadmaps \ roadmaps' :
              \E c \in Clients :
                  /\ reqs[c].kind = "delete"
                  /\ reqs[c].pc = "del_delete"
                  /\ reqs[c].rid = m.id
                  /\ reqs[c].user = m.user_email
                  /\ get_current_user(config, reqs[c].token, users)
                        = [status |-> HTTP_200, email |-> m.user_email]
                  /\ reqs'[c].pc = "done"
                  /\ reqs'[c].status = HTTP_204
        /\ \A c \in Clients :
              (reqs[c].pc = "del_get" /\ reqs'[c] # reqs[c]) =>
                  /\ (~\E m \in roadmaps : m.id = reqs[c].rid)
                        => (reqs'[c].pc = "done" /\ reqs'[c].status = HTTP_404
                            /\ roadmaps' = roadmaps)
                  /\ OthersRoadmap(reqs[c])
                        => (reqs'[c].pc = "done" /\ reqs'[c].status = HTTP_403
                            /\ roadmaps' = roadmaps)
                  /\ reqs'[c].pc # "done" => reqs'[c].pc = "del_delete"
    ]_vars

\* one client was turned away from another account's roadmap, the other has
\* deleted its own
C13_Witness ==
    /\ pc = "serving"
    /\ next_rid > 1
    /\ roadmaps = {}
    /\ \E c, d \in Clients :
          /\ reqs[c].kind = "delete" /\ reqs[c].status = HTTP_403
          /\ reqs[d].kind = "delete" /\ reqs[d].status = HTTP_204 /\ reqs[d].wrote

\* C14: no two UserAccount documents hold the same email, whatever the
\* interleaving of the register requests.
C14_UniqueEmails == pc = "serving" => \A e \in Emails : users[e] <= 1

\* the protected requests of rs keep authentication first; Rejections is the
\* set of statuses a request that was not accepted may end with
AuthFirst(rs, accounts, Rejections) ==
    \A c \in Clients :
        LET r == rs[c]
        IN  r.kind \in ProtectedKinds =>
                /\ (r.ai > 0 \/ r.wrote \/ r.pc # "done") => r.authed
                /\ (r.authed /\ r.pc # "done") =>
                      /\ r.token.key = "server"
                      /\ ~r.token.expired
                      /\ r.token.sub = r.user
                      /\ r.user \in Emails
                      /\ Registered(accounts, r.user)
                /\ (r.pc = "done" /\ ~r.authed) =>
                      (r.status \in Rejections /\ r.ai = 0 /\ r.val = 0 /\ ~r.wrote)

\* a step that ends a protected request get_current_user did not accept
\* leaves both collections as they were
RejectionKeepsStores ==
    \A c \in Clients :
        (reqs'[c] # reqs[c] /\ reqs'[c].kind \in ProtectedKinds /\ reqs'[c].pc = "done"
            /\ ~reqs'[c].authed)
        => (users' = users /\ roadmaps' = roadmaps /\ next_rid' = next_rid)

====
